---- MODULE Spec2Model ----
(***************************************************************************)
(* Model of ga642381/robust-vc:                                            *)
(*   S2VC/S2VC-noisy/data/intra_speaker_dataset.py                         *)
(*       IntraSpeakerDataset (__init__, __getitem__, _get_data),           *)
(*       _process_data, _load_data, collate_batch                          *)
(*   assets/script/metric_pesq.py                                          *)
(*       main, cal_pesq                                                    *)
(*                                                                         *)
(* Python indices are 0-based and are kept 0-based wherever the program    *)
(* stores them (speaker_to_indices, the loop counter i, the index given to *)
(* __getitem__); TLA+ sequences are 1-based, so list element k of the      *)
(* program is element k + 1 of the sequence that models the list.          *)
(***************************************************************************)
EXTENDS Integers, Sequences, FiniteSets, TLC

VARIABLES
    \* ---- arguments of IntraSpeakerDataset.__init__ and the files on disk
    metadata,            \* json.load(metadata_path): <<speaker, utterances>>, in file order
    split_spks,          \* the speakers of the split
    pre_load,            \* eager (TRUE) or lazy (FALSE)
    src_feat, ref_feat,  \* source and reference feature type names
    fs,                  \* relative feature path -> variant of its bundle (1, 2, ...), 0 if missing
    wavaug,              \* the outcomes a random draw of the noise augmenter can have
    \* ---- __init__: the main thread and the ThreadPoolExecutor
    pc,                  \* "submit", "collect", "constructed", "failed"
    cursor,              \* position of the submission loops in metadata
    futures,             \* the list futures, each with the work item it stands for
    i,                   \* enumerate's counter of the collecting loop
    raised,              \* the exception __init__ propagated, "" if none
    awaited,             \* the futures whose result the collecting loop has taken
    poolLog,             \* whether a work item completed before one submitted earlier,
                         \* and whether one had to wait for a free worker
    filesRead,           \* every path torch.load was called on
    \* ---- the dataset object
    data, speaker_to_indices, src_dim, ref_dim, tgt_dim,
    \* ---- threads calling __getitem__
    thr,                 \* per thread: position in _get_data and its locals
    lastRet,             \* the call that just returned or raised, until the next call begins
    lastWrite,           \* per cached field, and overall: what the latest writer observed
    \* ---- collate_batch
    batch, collated,
    \* ---- metric_pesq.main
    ev

inputs      == <<metadata, split_spks, pre_load, src_feat, ref_feat, fs, wavaug>>
datasetVars == <<inputs,
                 pc, cursor, futures, i, raised, awaited, poolLog, filesRead,
                 data, speaker_to_indices, src_dim, ref_dim, tgt_dim,
                 thr, lastRet, lastWrite>>
collateVars == <<batch, collated>>
evalVars    == <<ev>>
vars        == <<datasetVars, collateVars, evalVars>>

(***************************************************************************)
(* Bounds of the model.                                                    *)
(***************************************************************************)
MaxTasks   == 3      \* utterances in a manifest, over all its speakers
PoolTasks  == 5      \* utterances in a manifest given to the executor alone
MaxMissing == 1      \* feature files missing from disk
NumDraws   == 2      \* distinct outcomes of one random noise draw
NumVariants == 2     \* distinct shapes of feature bundle
MaxBatch   == 2      \* examples in a batch given to collate_batch
MaxLen     == 2      \* time steps of a sequence of a batch
MaxCh      == 2      \* channels of the sources, and of the targets and target mels
MaxFiles   == 3      \* audio files in the evaluator's clean directory

SpeakerIds == {"p225", "p226"}
FeatNames  == {"cpc", "apc"}
Keys       == {"audio_path"} \cup FeatNames
Threads    == {"t1", "t2"}
data_dir   == "data"

max_workers == 4

(***************************************************************************)
(* Small helpers.                                                          *)
(***************************************************************************)
Range(s) == {s[k] : k \in DOMAIN s}

RECURSIVE SumSeq(_)
SumSeq(s) == IF s = <<>> THEN 0 ELSE Head(s) + SumSeq(Tail(s))

RECURSIVE Flatten(_)
Flatten(ss) == IF ss = <<>> THEN <<>> ELSE Head(ss) \o Flatten(Tail(ss))

\* How often x occurs in sequence s.
Count(s, x) == Cardinality({k \in DOMAIN s : s[k] = x})

(***************************************************************************)
(* The manifest and the feature files.                                     *)
(***************************************************************************)
\* One utterance record of the manifest: a path per key.
Utterance(spk, k) == [key \in Keys |-> <<spk, k, key>>]

SpeakerOrders ==
    {o \in UNION {[1..n -> SpeakerIds] : n \in 0..Cardinality(SpeakerIds)} :
        \A a, b \in DOMAIN o : a # b => o[a] # o[b]}

Manifests(n) ==
    UNION {{[s \in DOMAIN o |->
               <<o[s], [k \in 1..cnt[s] |-> Utterance(o[s], k)]>>] :
            cnt \in {c \in [DOMAIN o -> 0..n] : SumSeq(c) <= n}} :
           o \in SpeakerOrders}

\* The number of utterances of a manifest.
Utterances(m) == SumSeq([s \in DOMAIN m |-> Len(m[s][2])])

\* The feature paths a manifest names under the feature types in use.
ManifestPaths(m, feats) ==
    UNION {{m[s][2][k][f] : k \in DOMAIN m[s][2], f \in feats} : s \in DOMAIN m}

\* The disks: every named file holds a bundle of one of the variants vs, except
\* at most n files, which are missing.
Disks(m, feats, vs, n) ==
    {d \in [ManifestPaths(m, feats) -> vs \cup {0}] :
        Cardinality({p \in DOMAIN d : d[p] = 0}) <= n}

\* Channel counts of the tensors that come from a bundle of variant v: its mel,
\* and what the feature extractor yields for its waveform.
MelChannels(v)  == 40 * v

\* Path(data_dir, feature_path)
Path(dir, p) == <<dir, p>>

\* The three named tensors of a feature bundle file.
Wav(path)  == [t |-> "wav",  of |-> path]
Feat(path) == [t |-> "feat", of |-> path]
Mel(path)  == [t |-> "mel",  of |-> path, ch |-> MelChannels(fs[path[2]])]

Exists(path) == path[2] \in DOMAIN fs /\ fs[path[2]] >= 1

(***************************************************************************)
(* _load_data and _process_data.  An outcome is either a returned value or *)
(* a raised exception, with the paths torch.load was called on.            *)
(***************************************************************************)
Returned(v, reads) == [kind |-> "value", value |-> v, exc |-> "", reads |-> reads]
Raised(e, reads)   == [kind |-> "raise", value |-> <<>>, exc |-> e, reads |-> reads]

_load_data(speaker_name, dir, src_feature_path, ref_feature_path) ==
    LET sp == Path(dir, src_feature_path)
        rp == Path(dir, ref_feature_path)
    IN  IF ~Exists(sp) THEN Raised("FileNotFoundError", {sp})
        ELSE IF ~Exists(rp) THEN Raised("FileNotFoundError", {sp, rp})
        ELSE Returned(<<speaker_name, Wav(sp), Feat(sp), Wav(rp), Feat(rp), Mel(sp)>>,
                      {sp, rp})

\* pre_load ignored: the files are loaded whatever the mode.
AlwaysLoad(speaker_name, dir, feature, pl, sf, rf) ==
    _load_data(speaker_name, dir, feature[sf], feature[rf])

_process_data(speaker_name, dir, feature, pl, sf, rf) ==
    LET src_feature_path == feature[sf]
        ref_feature_path == feature[rf]
    IN  IF pl
        THEN _load_data(speaker_name, dir, src_feature_path, ref_feature_path)
        ELSE Returned(<<speaker_name, dir, src_feature_path, ref_feature_path>>, {})

\* What a work item computes from the arguments it was submitted with.
RunTask(args) ==
    _process_data(args.speaker_name, args.data_dir, args.feature,
                  args.pre_load, args.src_feat, args.ref_feat)

(***************************************************************************)
(* __init__, lines 45-60: the submission loops.                            *)
(***************************************************************************)
\* The split test left out: every speaker of the manifest is taken.
EverySpeaker(speaker_name, spks) == TRUE

\* speaker_name in split_spks
InSplit(speaker_name, spks) == speaker_name \in spks

\* The work items a worker thread is executing.
Running == {j \in DOMAIN futures : futures[j].state = "RUNNING"}

Submit ==
    /\ pc = "submit"
    /\ cursor.s <= Len(metadata)
    /\ LET speaker_name == metadata[cursor.s][1]
           utterances   == metadata[cursor.s][2]
       IN  /\ InSplit(speaker_name, split_spks)
           /\ cursor.u <= Len(utterances)
           /\ futures' = Append(futures,
                  [args  |-> [speaker_name |-> speaker_name, data_dir |-> data_dir,
                              feature |-> utterances[cursor.u], pre_load |-> pre_load,
                              src_feat |-> src_feat, ref_feat |-> ref_feat],
                   state |-> "PENDING",
                   outcome |-> Raised("", {})])
           /\ cursor' = [cursor EXCEPT !.u = @ + 1]
    /\ poolLog' = [poolLog EXCEPT !.waited = @ \/ Cardinality(Running) = max_workers]
    /\ UNCHANGED <<inputs, pc, i,
                   raised, awaited, filesRead, data, speaker_to_indices,
                   src_dim, ref_dim, tgt_dim, thr, lastRet, lastWrite>>
    /\ UNCHANGED <<collateVars, evalVars>>

\* The next speaker: this one is not in the split, or its utterances are done.
NextSpeaker ==
    /\ pc = "submit"
    /\ cursor.s <= Len(metadata)
    /\ \/ ~InSplit(metadata[cursor.s][1], split_spks)
       \/ cursor.u > Len(metadata[cursor.s][2])
    /\ cursor' = [s |-> cursor.s + 1, u |-> 1]
    /\ UNCHANGED <<inputs, pc, futures,
                   i, raised, awaited, poolLog, filesRead, data, speaker_to_indices,
                   src_dim, ref_dim, tgt_dim, thr, lastRet, lastWrite>>
    /\ UNCHANGED <<collateVars, evalVars>>

\* Lines 62-63: the loops are over; data and speaker_to_indices start empty.
StartCollect ==
    /\ pc = "submit"
    /\ cursor.s > Len(metadata)
    /\ pc' = "collect"
    /\ i' = 0
    /\ data' = <<>>
    /\ speaker_to_indices' = <<>>
    /\ UNCHANGED <<inputs, cursor,
                   futures, raised, awaited, poolLog, filesRead,
                   src_dim, ref_dim, tgt_dim, thr, lastRet, lastWrite>>
    /\ UNCHANGED <<collateVars, evalVars>>

(***************************************************************************)
(* The executor: work items start in submission order, at most max_workers *)
(* run at a time, and they finish in any order.                            *)
(***************************************************************************)

WorkerStart ==
    /\ Cardinality(Running) < max_workers
    /\ \E j \in DOMAIN futures :
        /\ futures[j].state = "PENDING"
        /\ \A k \in 1..(j - 1) : futures[k].state # "PENDING"
        /\ futures' = [futures EXCEPT ![j].state = "RUNNING"]
    /\ UNCHANGED <<inputs, pc, cursor,
                   i, raised, awaited, poolLog, filesRead, data, speaker_to_indices,
                   src_dim, ref_dim, tgt_dim, thr, lastRet, lastWrite>>
    /\ UNCHANGED <<collateVars, evalVars>>

WorkerFinish ==
    /\ \E j \in Running :
        LET r == RunTask(futures[j].args)
        IN  /\ futures' = [futures EXCEPT ![j].state = "FINISHED", ![j].outcome = r]
            /\ filesRead' = filesRead \cup r.reads
            /\ poolLog' = [poolLog EXCEPT !.overtaken =
                            @ \/ \E k \in 1..(j - 1) : futures[k].state # "FINISHED"]
    /\ UNCHANGED <<inputs, pc, cursor,
                   i, raised, awaited, data, speaker_to_indices,
                   src_dim, ref_dim, tgt_dim, thr, lastRet, lastWrite>>
    /\ UNCHANGED <<collateVars, evalVars>>

(***************************************************************************)
(* __init__, lines 64-71: the collecting loop, and lines 73-88.            *)
(***************************************************************************)
\* An iteration over the futures as they complete (as_completed) in place of
\* the list's own order: any finished future not taken yet.
AsCompletedFuture ==
    LET ready == {j \in DOMAIN futures : futures[j].state = "FINISHED" /\ j \notin awaited}
    IN  IF ready = {} THEN 0 ELSE CHOOSE j \in ready : TRUE

\* The future iteration i of "for i, future in enumerate(futures)" waits for.
AwaitedFuture == i + 1

\* Both branches set the list to the single index.
ResetIndices(s2i, speaker_name, idx) ==
    IF speaker_name \notin DOMAIN s2i
    THEN s2i @@ (speaker_name :> <<idx>>)
    ELSE [s2i EXCEPT ![speaker_name] = <<idx>>]

\* Lines 68-71.
AddIndex(s2i, speaker_name, idx) ==
    IF speaker_name \notin DOMAIN s2i
    THEN s2i @@ (speaker_name :> <<idx>>)
    ELSE [s2i EXCEPT ![speaker_name] = Append(@, idx)]

Collect ==
    /\ pc = "collect"
    /\ i < Len(futures)
    /\ AwaitedFuture \in DOMAIN futures
    /\ futures[AwaitedFuture].state = "FINISHED"
    /\ awaited' = awaited \cup {AwaitedFuture}
    /\ LET r == futures[AwaitedFuture].outcome
       IN  IF r.kind = "raise"
           THEN /\ pc' = "failed"
                /\ raised' = r.exc
                /\ UNCHANGED <<i, data, speaker_to_indices>>
           ELSE /\ data' = Append(data, r.value)
                /\ speaker_to_indices' = AddIndex(speaker_to_indices, r.value[1], i)
                /\ i' = i + 1
                /\ UNCHANGED <<pc, raised>>
    /\ UNCHANGED <<inputs, cursor,
                   futures, poolLog, filesRead,
                   src_dim, ref_dim, tgt_dim, thr, lastRet, lastWrite>>
    /\ UNCHANGED <<collateVars, evalVars>>

\* Lines 73-88; the executor's bookkeeping goes with the executor.
FinishInit ==
    /\ pc = "collect"
    /\ i = Len(futures)
    /\ pc' = "constructed"
    /\ src_dim' = -1
    /\ ref_dim' = -1
    /\ tgt_dim' = -1
    /\ poolLog' = [overtaken |-> FALSE, waited |-> FALSE]
    /\ UNCHANGED <<inputs, cursor,
                   futures, i, raised, awaited, filesRead, data, speaker_to_indices,
                   thr, lastRet, lastWrite>>
    /\ UNCHANGED <<collateVars, evalVars>>

(***************************************************************************)
(* _get_data and __getitem__.  The noise augmenter and the feature         *)
(* extractors are collaborators outside this file: add_noise draws at      *)
(* random, get_feature yields an embedding of its input, as wide as its    *)
(* feature type makes it.                                                  *)
(***************************************************************************)
add_noise(wav, draw) == [t |-> "noisy", of |-> wav, draw |-> draw]

\* The width of the embeddings of a feature type.
FeatChannels(feat_name) == IF feat_name = "cpc" THEN 256 ELSE 512

get_feature(feat_name, wav) ==
    [t |-> "emb", feat |-> feat_name, of |-> wav, ch |-> FeatChannels(feat_name)]

\* Lines 101-107: the entry, as stored or loaded now.
Resolve(index) ==
    LET e == data[index + 1]
    IN  IF pre_load THEN Returned(e, {}) ELSE _load_data(e[1], e[2], e[3], e[4])

\* The general scheme taken whatever the feature type names are.
AlwaysTwoDraws(content_wav, target_wav, n1, n2) ==
    LET content_noisy_wav == add_noise(content_wav, n1)
        target_noisy_wav  == add_noise(target_wav, n2)
    IN  [content_emb |-> get_feature(src_feat, content_noisy_wav),
         target_emb  |-> get_feature(ref_feat, target_noisy_wav),
         aug |-> <<content_wav, target_wav>>,
         ext |-> <<<<src_feat, content_noisy_wav>>, <<ref_feat, target_noisy_wav>>>>]

\* Lines 108-126.  aug: the arguments of the add_noise calls; ext: the extractor
\* (by its feature type) and argument of the get_feature calls.
NoisyFeatures(content_wav, target_wav, n1, n2) ==
    IF src_feat = ref_feat
    THEN LET content_noisy_wav == add_noise(content_wav, n1)
             content_emb == get_feature(src_feat, content_noisy_wav)
         IN  [content_emb |-> content_emb,
              target_emb  |-> content_emb,
              aug |-> <<content_wav>>,
              ext |-> <<<<src_feat, content_noisy_wav>>>>]
    ELSE LET content_noisy_wav == add_noise(content_wav, n1)
             target_noisy_wav  == add_noise(target_wav, n2)
         IN  [content_emb |-> get_feature(src_feat, content_noisy_wav),
              target_emb  |-> get_feature(ref_feat, target_noisy_wav),
              aug |-> <<content_wav, target_wav>>,
              ext |-> <<<<src_feat, content_noisy_wav>>, <<ref_feat, target_noisy_wav>>>>]

NoLoc == [index |-> -1]
NoRet == [t |-> "", index |-> -1, outcome |-> "none"]

\* The locals of _get_data once line 126 is done.
Locals(index, e, n1, n2) ==
    [index |-> index, speaker_name |-> e[1], content_wav |-> e[2], target_wav |-> e[4],
     target_mel |-> e[6]] @@ NoisyFeatures(e[2], e[4], n1, n2)

\* Line 132 handing back the waveforms.
ReturnWavs(loc) ==
    <<loc.speaker_name, loc.content_wav, loc.target_wav, loc.target_mel>>

\* Line 132.
GetDataReturn(loc) ==
    <<loc.speaker_name, loc.content_emb, loc.target_emb, loc.target_mel>>

\* Lines 96-98: the last three of the four values _get_data returned.
GetItemReturn(r) == <<r[2], r[3], r[4]>>

\* Line 129 reading the content embedding's shape.
RefDimOfContent(loc) == loc.content_emb.ch

\* Lines 128-130: the values stored.
SrcDimValue(loc) == loc.content_emb.ch
RefDimValue(loc) == loc.target_emb.ch
TgtDimValue(loc) == loc.target_mel.ch

\* What one call observed: (source, reference, target-mel) dimensions.
Observed(loc) == <<loc.content_emb.ch, loc.target_emb.ch, loc.target_mel.ch>>

Active == {t \in Threads : thr[t].pc # "idle"}

\* Thread t stores a field while a call that observed other dimensions has
\* stored its first field and not yet its last.
Overtakes(t) ==
    \E u \in Threads \ {t} :
        /\ thr[u].pc \in {"w_ref", "w_tgt"}
        /\ Observed(thr[u].loc) # Observed(thr[t].loc)

\* __getitem__(index) entered: lines 100-126.  Concurrent calls are on different
\* indices.
Call(t) ==
    /\ pc = "constructed"
    /\ thr[t].pc = "idle"
    /\ \E index \in 0..(Len(data) - 1) :
        /\ \A u \in Active : thr[u].loc.index # index
        /\ LET r == Resolve(index)
           IN  /\ filesRead' = filesRead \cup r.reads
               /\ IF r.kind = "raise"
                  THEN /\ lastRet' = [t |-> t, index |-> index, outcome |-> r.exc]
                       /\ thr' = thr
                  ELSE /\ \E n1, n2 \in wavaug :
                            thr' = [thr EXCEPT ![t] =
                                      [pc |-> "w_src",
                                       loc |-> Locals(index, r.value, n1, n2)]]
                       /\ lastRet' = NoRet
    /\ UNCHANGED <<inputs, pc, cursor,
                   futures, i, raised, awaited, poolLog, data, speaker_to_indices,
                   src_dim, ref_dim, tgt_dim, lastWrite>>
    /\ UNCHANGED <<collateVars, evalVars>>

\* Line 128.
WriteSrc(t) ==
    /\ thr[t].pc = "w_src"
    /\ src_dim' = SrcDimValue(thr[t].loc)
    /\ lastWrite' = [lastWrite EXCEPT !.src = Observed(thr[t].loc)[1],
                                      !.any = Observed(thr[t].loc),
                                      !.interleaved = @ \/ Overtakes(t)]
    /\ thr' = [thr EXCEPT ![t].pc = "w_ref"]
    /\ UNCHANGED <<inputs, pc, cursor,
                   futures, i, raised, awaited, poolLog, filesRead, data, speaker_to_indices,
                   ref_dim, tgt_dim, lastRet>>
    /\ UNCHANGED <<collateVars, evalVars>>

\* Line 129.
WriteRef(t) ==
    /\ thr[t].pc = "w_ref"
    /\ ref_dim' = RefDimValue(thr[t].loc)
    /\ lastWrite' = [lastWrite EXCEPT !.ref = Observed(thr[t].loc)[2],
                                      !.any = Observed(thr[t].loc),
                                      !.interleaved = @ \/ Overtakes(t)]
    /\ thr' = [thr EXCEPT ![t].pc = "w_tgt"]
    /\ UNCHANGED <<inputs, pc, cursor,
                   futures, i, raised, awaited, poolLog, filesRead, data, speaker_to_indices,
                   src_dim, tgt_dim, lastRet>>
    /\ UNCHANGED <<collateVars, evalVars>>

\* Line 130.
WriteTgt(t) ==
    /\ thr[t].pc = "w_tgt"
    /\ tgt_dim' = TgtDimValue(thr[t].loc)
    /\ lastWrite' = [lastWrite EXCEPT !.tgt = Observed(thr[t].loc)[3],
                                      !.any = Observed(thr[t].loc),
                                      !.interleaved = @ \/ Overtakes(t)]
    /\ thr' = [thr EXCEPT ![t].pc = "ret"]
    /\ UNCHANGED <<inputs, pc, cursor,
                   futures, i, raised, awaited, poolLog, filesRead, data, speaker_to_indices,
                   src_dim, ref_dim, lastRet>>
    /\ UNCHANGED <<collateVars, evalVars>>

\* Line 132, then lines 96-98.
Return(t) ==
    /\ thr[t].pc = "ret"
    /\ LET loc == thr[t].loc
           r   == GetDataReturn(loc)
       IN  lastRet' = [t |-> t, index |-> loc.index, outcome |-> "ok",
                       get_data |-> r, item |-> GetItemReturn(r),
                       content_wav |-> loc.content_wav, target_wav |-> loc.target_wav,
                       aug |-> loc.aug, ext |-> loc.ext]
    /\ thr' = [thr EXCEPT ![t] = [pc |-> "idle", loc |-> NoLoc]]
    /\ UNCHANGED <<inputs, pc, cursor,
                   futures, i, raised, awaited, poolLog, filesRead, data, speaker_to_indices,
                   src_dim, ref_dim, tgt_dim, lastWrite>>
    /\ UNCHANGED <<collateVars, evalVars>>

(***************************************************************************)
(* The dataset from construction on, read by one thread.                   *)
(***************************************************************************)
IdleThreads == [t \in Threads |-> [pc |-> "idle", loc |-> NoLoc]]

OtherInit ==
    /\ batch = <<>>
    /\ collated = [status |-> "none"]
    /\ ev = [pc |-> "none"]

\* __init__ entered.
Entered ==
    /\ pc = "submit"
    /\ cursor = [s |-> 1, u |-> 1]
    /\ futures = <<>>
    /\ i = 0
    /\ raised = ""
    /\ awaited = {}
    /\ poolLog = [overtaken |-> FALSE, waited |-> FALSE]
    /\ filesRead = {}
    /\ data = <<>>
    /\ speaker_to_indices = <<>>
    /\ src_dim = -1
    /\ ref_dim = -1
    /\ tgt_dim = -1
    /\ thr = IdleThreads
    /\ lastRet = NoRet
    /\ lastWrite = [src |-> -1, ref |-> -1, tgt |-> -1, any |-> <<-1, -1, -1>>,
                    interleaved |-> FALSE]

Init ==
    /\ metadata \in Manifests(MaxTasks)
    /\ split_spks \in SUBSET SpeakerIds
    /\ pre_load \in BOOLEAN
    /\ src_feat = "cpc"
    /\ ref_feat \in FeatNames
    /\ fs \in Disks(metadata, {src_feat, ref_feat}, {1}, MaxMissing)
    /\ wavaug = 1..NumDraws
    /\ Entered
    /\ OtherInit

Next ==
    \/ Submit
    \/ NextSpeaker
    \/ StartCollect
    \/ WorkerStart
    \/ WorkerFinish
    \/ Collect
    \/ FinishInit
    \/ Call("t1")
    \/ WriteSrc("t1")
    \/ WriteRef("t1")
    \/ WriteTgt("t1")
    \/ Return("t1")

Spec == Init /\ [][Next]_vars

(***************************************************************************)
(* Construction alone, over manifests of more utterances than workers.     *)
(***************************************************************************)
InitPool ==
    /\ metadata \in {m \in Manifests(PoolTasks) : Utterances(m) = PoolTasks}
    /\ split_spks = SpeakerIds
    /\ pre_load \in BOOLEAN
    /\ src_feat = "cpc"
    /\ ref_feat = "cpc"
    /\ fs \in Disks(metadata, {src_feat, ref_feat}, {1}, 0)
    /\ wavaug = {}
    /\ Entered
    /\ OtherInit

NextPool ==
    \/ Submit
    \/ NextSpeaker
    \/ StartCollect
    \/ WorkerStart
    \/ WorkerFinish
    \/ Collect
    \/ FinishInit

SpecPool == InitPool /\ [][NextPool]_vars

(***************************************************************************)
(* Properties of construction.                                             *)
(***************************************************************************)
\* C1: every entry of data is the result of the work item submitted at the same
\* position, whatever the order in which the work items completed.
C1_EntryIsResultOfSameSubmission ==
    \A k \in 1..Len(data) :
        /\ k \in DOMAIN futures
        /\ data[k] = RunTask(futures[k].args).value

\* The collecting loop is over with more entries than workers; a work item
\* completed before one submitted earlier, and one had to wait for a worker.
C1_Witness ==
    /\ pc = "collect"
    /\ i = Len(futures)
    /\ Len(data) > max_workers
    /\ poolLog.overtaken
    /\ poolLog.waited

\* The utterance counts of the manifest speakers that are in the split, summed.
ExpectedLength ==
    SumSeq([s \in DOMAIN metadata |->
              IF metadata[s][1] \in split_spks THEN Len(metadata[s][2]) ELSE 0])

\* C2: after construction the length is the number of utterances of the split's
\* speakers, and every entry is of a speaker of the split.
C2_LengthIsSplitUtterances ==
    pc = "constructed" =>
        /\ Len(data) = ExpectedLength
        /\ \A k \in 1..Len(data) : data[k][1] \in split_spks

\* A dataset of two or more entries built from a manifest that also holds
\* utterances of a speaker outside the split.
C2_Witness ==
    /\ pc = "constructed"
    /\ Len(data) >= 2
    /\ \E s \in DOMAIN metadata :
          metadata[s][1] \notin split_spks /\ Len(metadata[s][2]) > 0

\* C3: after construction every position 0..length-1 is listed exactly once in
\* speaker_to_indices, under the speaker of the entry at that position.
C3_SpeakerIndexPartitions ==
    pc = "constructed" =>
        /\ \A pos \in 0..(Len(data) - 1) :
              Cardinality({sk \in {<<s, k>> : s \in DOMAIN speaker_to_indices,
                                              k \in 1..Len(data)} :
                             /\ sk[2] \in DOMAIN speaker_to_indices[sk[1]]
                             /\ speaker_to_indices[sk[1]][sk[2]] = pos}) = 1
        /\ \A s \in DOMAIN speaker_to_indices :
              /\ Len(speaker_to_indices[s]) <= Len(data)
              /\ \A k \in DOMAIN speaker_to_indices[s] :
                    /\ speaker_to_indices[s][k] \in 0..(Len(data) - 1)
                    /\ data[speaker_to_indices[s][k] + 1][1] = s

\* A dataset of two speakers, one of them with two entries.
C3_Witness ==
    /\ pc = "constructed"
    /\ Cardinality(DOMAIN speaker_to_indices) = 2
    /\ \E s \in DOMAIN speaker_to_indices : Len(speaker_to_indices[s]) >= 2

(***************************************************************************)
(* Properties of one __getitem__ call.                                     *)
(***************************************************************************)
\* C6: with equal feature type names one add_noise and one get_feature call are
\* made and the target embedding is the content embedding; with different names
\* add_noise is called on the content and on the target waveform and each
\* embedding is extracted, by its own extractor, from its own noisy waveform.
C6_IdentityShortcut ==
    lastRet.outcome = "ok" =>
        LET content_emb == lastRet.get_data[2]
            target_emb  == lastRet.get_data[3]
        IN  IF src_feat = ref_feat
            THEN /\ lastRet.aug = <<lastRet.content_wav>>
                 /\ Len(lastRet.ext) = 1
                 /\ target_emb = content_emb
                 /\ content_emb = get_feature(src_feat, lastRet.ext[1][2])
                 /\ lastRet.ext[1][2].of = lastRet.content_wav
            ELSE /\ lastRet.aug = <<lastRet.content_wav, lastRet.target_wav>>
                 /\ Len(lastRet.ext) = 2
                 /\ lastRet.ext[1][1] = src_feat
                 /\ lastRet.ext[2][1] = ref_feat
                 /\ lastRet.ext[1][2].of = lastRet.content_wav
                 /\ lastRet.ext[2][2].of = lastRet.target_wav
                 /\ content_emb = get_feature(src_feat, lastRet.ext[1][2])
                 /\ target_emb = get_feature(ref_feat, lastRet.ext[2][2])

\* A call has returned from a dataset whose two feature type names are equal.
C6_Witness ==
    /\ lastRet.outcome = "ok"
    /\ src_feat = ref_feat
    /\ lastRet.get_data[3] = lastRet.get_data[2]

\* Whether a file of entry k (1-based) of a lazy dataset is missing.
EntryFileMissing(k) ==
    \/ ~Exists(Path(data[k][2], data[k][3]))
    \/ ~Exists(Path(data[k][2], data[k][4]))

\* C7: a lazy construction reads no feature file and does not fail, and a call
\* on a lazy dataset raises exactly when a file of its entry is missing; an
\* eager construction any of whose work items meets a missing file never
\* yields a dataset, and construction fails for no other reason.
C7_MissingFileFailsAtLoad ==
    /\ ~pre_load =>
          /\ pc # "failed"
          /\ (lastRet.outcome = "none" /\ Active = {}) => filesRead = {}
          /\ lastRet.outcome # "none" =>
                (lastRet.outcome = "FileNotFoundError"
                    <=> EntryFileMissing(lastRet.index + 1))
          /\ \A t \in Active : ~EntryFileMissing(thr[t].loc.index + 1)
    /\ pre_load =>
          /\ (\E j \in DOMAIN futures : RunTask(futures[j].args).kind = "raise")
                => pc # "constructed"
          /\ pc = "failed" =>
                /\ raised = "FileNotFoundError"
                /\ futures[i + 1].outcome.kind = "raise"
          /\ lastRet.outcome \in {"none", "ok"}

\* A lazy dataset was constructed over a missing file, and the call on that
\* entry raised.
C7_Witness ==
    /\ ~pre_load
    /\ pc = "constructed"
    /\ lastRet.outcome = "FileNotFoundError"
    /\ EntryFileMissing(lastRet.index + 1)

\* C8 as stated: the first two components of what __getitem__ returns are the
\* content and target waveforms of the entry.
C8_ReturnsWaveforms ==
    lastRet.outcome = "ok" =>
        /\ lastRet.item[1] = lastRet.content_wav
        /\ lastRet.item[2] = lastRet.target_wav

\* C8 amended: __getitem__ returns the content embedding, the target embedding
\* and the target mel: the first two are extracted from the noisy content and
\* target waveforms of the entry (the target one is the content one when the
\* feature type names are equal), the third is the mel of the entry.
C8_ReturnsEmbeddings ==
    lastRet.outcome = "ok" =>
        LET e == Resolve(lastRet.index).value
        IN  /\ Len(lastRet.item) = 3
            /\ lastRet.item[1].t = "emb"
            /\ lastRet.item[1].feat = src_feat
            /\ lastRet.item[1].of.t = "noisy"
            /\ lastRet.item[1].of.of = e[2]
            /\ lastRet.item[2].t = "emb"
            /\ lastRet.item[2].feat = ref_feat
            /\ lastRet.item[2].of.t = "noisy"
            /\ lastRet.item[2].of.of = (IF src_feat = ref_feat THEN e[2] ELSE e[4])
            /\ lastRet.item[3] = e[6]

\* A call has returned, from a dataset with different feature type names.
C8_Witness ==
    /\ lastRet.outcome = "ok"
    /\ src_feat # ref_feat
    /\ lastRet.item[1].t = "emb"

(***************************************************************************)
(* Concurrent __getitem__ calls on a constructed dataset.                  *)
(***************************************************************************)
\* The work items __init__ submits, in submission order (lines 47-60).
Submissions ==
    Flatten([s \in DOMAIN metadata |->
        IF InSplit(metadata[s][1], split_spks)
        THEN [k \in DOMAIN metadata[s][2] |->
                [speaker_name |-> metadata[s][1], data_dir |-> data_dir,
                 feature |-> metadata[s][2][k], pre_load |-> pre_load,
                 src_feat |-> src_feat, ref_feat |-> ref_feat]]
        ELSE <<>>])

\* self.data once the collecting loop is over (lines 62-67).
BuiltData == [k \in DOMAIN Submissions |-> RunTask(Submissions[k]).value]

\* self.speaker_to_indices after the first n entries (lines 68-71).
RECURSIVE BuiltIndices(_)
BuiltIndices(n) ==
    IF n = 0 THEN <<>>
    ELSE AddIndex(BuiltIndices(n - 1), BuiltData[n][1], n - 1)

\* The state construction ends in, whatever the order of completion.
ConstructionResult ==
    pc = "constructed" =>
        /\ data = BuiltData
        /\ speaker_to_indices = BuiltIndices(Len(BuiltData))
        /\ futures = [k \in DOMAIN Submissions |->
                        [args |-> Submissions[k], state |-> "FINISHED",
                         outcome |-> RunTask(Submissions[k])]]
        /\ cursor = [s |-> Len(metadata) + 1, u |-> 1]
        /\ i = Len(futures)
        /\ raised = ""
        /\ awaited = DOMAIN futures
        /\ poolLog = [overtaken |-> FALSE, waited |-> FALSE]

\* A constructed dataset of one speaker and two entries, all files on disk, bundles of any
\* variant, and a noise augmenter whose draw has one outcome.
InitAccess ==
    /\ metadata \in {m \in Manifests(2) : Len(m) = 1 /\ Len(m[1][2]) = 2}
    /\ split_spks = SpeakerIds
    /\ pre_load \in BOOLEAN
    /\ src_feat \in FeatNames
    /\ ref_feat \in FeatNames
    /\ fs \in Disks(metadata, {src_feat, ref_feat}, 1..NumVariants, 0)
    /\ wavaug = {1}
    /\ pc = "constructed"
    /\ cursor = [s |-> Len(metadata) + 1, u |-> 1]
    /\ futures = [k \in DOMAIN Submissions |->
                    [args |-> Submissions[k], state |-> "FINISHED",
                     outcome |-> RunTask(Submissions[k])]]
    /\ i = Len(futures)
    /\ raised = ""
    /\ awaited = DOMAIN futures
    /\ poolLog = [overtaken |-> FALSE, waited |-> FALSE]
    /\ filesRead = UNION {futures[k].outcome.reads : k \in DOMAIN futures}
    /\ data = BuiltData
    /\ speaker_to_indices = BuiltIndices(Len(BuiltData))
    /\ src_dim = -1
    /\ ref_dim = -1
    /\ tgt_dim = -1
    /\ thr = IdleThreads
    /\ lastRet = NoRet
    /\ lastWrite = [src |-> -1, ref |-> -1, tgt |-> -1, any |-> <<-1, -1, -1>>,
                    interleaved |-> FALSE]
    /\ OtherInit

NextAccess ==
    \E t \in Threads :
        \/ Call(t)
        \/ WriteSrc(t)
        \/ WriteRef(t)
        \/ WriteTgt(t)
        \/ Return(t)

SpecAccess == InitAccess /\ [][NextAccess]_vars

Max(S) == CHOOSE x \in S : \A y \in S : y <= x
Min2(a, b) == IF a <= b THEN a ELSE b

\* The tensor of example b in group g with n time steps and ch channels: every
\* element has a value of its own, none of them a padding value.
Tensor(b, g, n, ch) ==
    [t \in 1..n |-> [c \in 1..ch |-> 1000 * b + 100 * g + 10 * t + c]]

\* pad_sequence(sequences, batch_first=True, padding_value): (B, T, C).
pad_sequence(sequences, padding_value) ==
    LET max_len == Max({Len(sequences[b]) : b \in DOMAIN sequences})
        trailing == Len(sequences[1][1])
    IN  [b \in DOMAIN sequences |->
            [t \in 1..max_len |->
                IF t <= Len(sequences[b])
                THEN sequences[b][t]
                ELSE [c \in 1..trailing |-> padding_value]]]

\* tensor.transpose(1, 2) of a (B, T, C) tensor: (B, C, T).
transpose12(x) ==
    [b \in DOMAIN x |->
        [c \in 1..Len(x[b][1]) |-> [t \in DOMAIN x[b] |-> x[b][t][c]]]]

\* torch.arange(n): 0, 1, ..., n - 1.
arange(n) == [k \in 1..n |-> k - 1]

\* A mask of the valid positions in place of the padded ones.
ValidMaskRow(size, len) == [k \in 1..size |-> arange(size)[k] < len]

\* torch.arange(size) >= len (lines 192 and 198).
MaskRow(size, len) == [k \in 1..size |-> arange(size)[k] >= len]

\* The targets padded with pad_sequence's default value.
PadTargetsDefault(sequences) == pad_sequence(sequences, 0)

\* Lines 195 and 201: pad_sequence(..., padding_value=-20).
PadTargets(sequences) == pad_sequence(sequences, -20)

\* Line 190: pad_sequence(srcs, batch_first=True), the default value being 0.
PadSources(sequences) == pad_sequence(sequences, 0)

collate_batch(bt) ==
    IF Len(bt) = 0
    THEN [status |-> "ValueError"]     \* line 179: nothing to unpack
    ELSE
    LET srcs     == [b \in DOMAIN bt |-> bt[b][1]]
        tgts     == [b \in DOMAIN bt |-> bt[b][2]]
        tgt_mels == [b \in DOMAIN bt |-> bt[b][3]]
        src_lens     == [b \in DOMAIN bt |-> Len(srcs[b])]
        tgt_lens     == [b \in DOMAIN bt |-> Len(tgts[b])]
        tgt_mel_lens == [b \in DOMAIN bt |-> Len(tgt_mels[b])]
        overlap_lens == [b \in DOMAIN bt |-> Min2(src_lens[b], tgt_mel_lens[b])]
        srcs_p     == PadSources(srcs)
        src_masks  == [b \in DOMAIN bt |-> MaskRow(Len(srcs_p[1]), src_lens[b])]
        tgts_p     == transpose12(PadTargets(tgts))
        tgt_masks  == [b \in DOMAIN bt |-> MaskRow(Len(tgts_p[1][1]), tgt_lens[b])]
        tgt_mels_p == transpose12(PadTargets(tgt_mels))
    IN  [status |-> "ok", srcs |-> srcs_p, src_masks |-> src_masks,
         tgts |-> tgts_p, tgt_masks |-> tgt_masks, tgt_mels |-> tgt_mels_p,
         overlap_lens |-> overlap_lens]

Collate ==
    /\ collated.status = "none"
    /\ collated' = collate_batch(batch)
    /\ UNCHANGED <<batch, datasetVars, evalVars>>

\* No dataset in these specifications.
NoDataset ==
    /\ metadata = <<>>
    /\ split_spks = {}
    /\ pre_load = FALSE
    /\ src_feat = "cpc"
    /\ ref_feat = "cpc"
    /\ fs = <<>>
    /\ wavaug = {}
    /\ pc = "none"
    /\ cursor = [s |-> 1, u |-> 1]
    /\ futures = <<>>
    /\ i = 0
    /\ raised = ""
    /\ awaited = {}
    /\ poolLog = [overtaken |-> FALSE, waited |-> FALSE]
    /\ filesRead = {}
    /\ data = <<>>
    /\ speaker_to_indices = <<>>
    /\ src_dim = -1
    /\ ref_dim = -1
    /\ tgt_dim = -1
    /\ thr = IdleThreads
    /\ lastRet = NoRet
    /\ lastWrite = [src |-> -1, ref |-> -1, tgt |-> -1, any |-> <<-1, -1, -1>>,
                    interleaved |-> FALSE]

InitCollate ==
    /\ NoDataset
    /\ ev = [pc |-> "none"]
    /\ collated = [status |-> "none"]
    /\ \E B \in 0..MaxBatch :
       \E lens \in [1..B -> [1..3 -> 1..MaxLen]] :
       \E ch \in [1..2 -> 1..MaxCh] :
          batch = [b \in 1..B |->
                     [g \in 1..3 |-> Tensor(b, g, lens[b][g], ch[IF g = 1 THEN 1 ELSE 2])]]

NextCollate == Collate

SpecCollate == InitCollate /\ [][NextCollate]_vars

\* The original length of the sequence of example b in group g (1 source,
\* 2 target, 3 target mel), and the longest of the batch.
OrigLen(b, g) == Len(batch[b][g])
LongestLen(g) == Max({OrigLen(b, g) : b \in DOMAIN batch})

\* C4: the source mask is (B, max source length), the target mask (B, max
\* target length), and position t (0-based) of example b is true exactly when
\* t >= the original length of that example's source (target) sequence; for a
\* batch of one shared length both masks are all false.
C4_MasksTrueAtPadding ==
    collated.status = "ok" =>
        /\ Len(collated.src_masks) = Len(batch)
        /\ Len(collated.tgt_masks) = Len(batch)
        /\ \A b \in DOMAIN batch :
              /\ Len(collated.src_masks[b]) = LongestLen(1)
              /\ Len(collated.tgt_masks[b]) = LongestLen(2)
              /\ \A t \in 0..(LongestLen(1) - 1) :
                    collated.src_masks[b][t + 1] = (t >= OrigLen(b, 1))
              /\ \A t \in 0..(LongestLen(2) - 1) :
                    collated.tgt_masks[b][t + 1] = (t >= OrigLen(b, 2))
        /\ (\A b \in DOMAIN batch : \A g \in 1..2 : OrigLen(b, g) = OrigLen(1, g))
              => \A b \in DOMAIN batch :
                    /\ \A t \in DOMAIN collated.src_masks[b] : ~collated.src_masks[b][t]
                    /\ \A t \in DOMAIN collated.tgt_masks[b] : ~collated.tgt_masks[b][t]

\* A batch of two examples was collated whose source and target lengths differ.
C4_Witness ==
    /\ collated.status = "ok"
    /\ Len(batch) = 2
    /\ OrigLen(1, 1) < OrigLen(2, 1)
    /\ OrigLen(1, 2) > OrigLen(2, 2)
    /\ collated.src_masks[1][OrigLen(1, 1) + 1]
    /\ collated.tgt_masks[2][OrigLen(2, 2) + 1]

\* C5: every padded position of the target and target-mel tensors is -20 and
\* every padded position of the source tensor is 0; every other position holds
\* the input value of that example, time step and channel, the target and
\* target-mel tensors being (B, channel, time).
C5_PaddingValues ==
    collated.status = "ok" =>
        \A b \in DOMAIN batch :
            /\ Len(collated.srcs[b]) = LongestLen(1)
            /\ \A t \in 1..LongestLen(1) :
                  /\ Len(collated.srcs[b][t]) = Len(batch[1][1][1])
                  /\ \A c \in 1..Len(batch[1][1][1]) :
                        collated.srcs[b][t][c] =
                            (IF t <= OrigLen(b, 1) THEN batch[b][1][t][c] ELSE 0)
            /\ Len(collated.tgts[b]) = Len(batch[1][2][1])
            /\ \A c \in 1..Len(batch[1][2][1]) :
                  /\ Len(collated.tgts[b][c]) = LongestLen(2)
                  /\ \A t \in 1..LongestLen(2) :
                        collated.tgts[b][c][t] =
                            (IF t <= OrigLen(b, 2) THEN batch[b][2][t][c] ELSE -20)
            /\ Len(collated.tgt_mels[b]) = Len(batch[1][3][1])
            /\ \A c \in 1..Len(batch[1][3][1]) :
                  /\ Len(collated.tgt_mels[b][c]) = LongestLen(3)
                  /\ \A t \in 1..LongestLen(3) :
                        collated.tgt_mels[b][c][t] =
                            (IF t <= OrigLen(b, 3) THEN batch[b][3][t][c] ELSE -20)

\* A batch was collated in which a source, a target and a target mel are padded,
\* with two channels to tell the axes apart.
C5_Witness ==
    /\ collated.status = "ok"
    /\ Len(batch) = 2
    /\ OrigLen(1, 1) < OrigLen(2, 1)
    /\ OrigLen(1, 2) < OrigLen(2, 2)
    /\ OrigLen(2, 3) < OrigLen(1, 3)
    /\ Len(batch[1][2][1]) = 2
    /\ collated.srcs[1][OrigLen(2, 1)][1] = 0
    /\ collated.tgts[1][2][OrigLen(2, 2)] = -20
    /\ collated.tgt_mels[2][1][OrigLen(1, 3)] = -20

(***************************************************************************)
(* metric_pesq.main.  A path is <<directory, relative name>>; the files    *)
(* are numbered, and find_files returns them sorted.                       *)
(***************************************************************************)
Dirs == {"clean", "noisy"}

\* f.replace(str(clean_dir), str(noisy_dir)) on a path under clean_dir.
ReplaceDir(path, old, new) == IF path[1] = old THEN <<new, path[2]>> ELSE path

\* librosa.util.find_files(clean_dir): the files of the directory, sorted.
RECURSIVE SortedSeq(_)
SortedSeq(S) ==
    IF S = {} THEN <<>>
    ELSE LET m == CHOOSE x \in S : \A y \in S : x <= y
         IN  <<m>> \o SortedSeq(S \ {m})

\* os.path.exists
PathExists(path) ==
    \/ path[1] = ev.clean_dir /\ path[2] \in ev.clean_files
    \/ path[1] = ev.noisy_dir /\ path[1] # ev.clean_dir /\ path[2] \in ev.noisy_files

\* The scores the metric libraries give a pair.
PesqScore(fs2) == fs2[1][2] + 1
StoiScore(fs2) == 1

\* cal_pesq: the assertion on the sample rates, then the two scores.
cal_pesq(fs2) ==
    IF fs2[1][2] \in ev.rate_mismatch
    THEN [kind |-> "raise", exc |-> "AssertionError", value |-> <<>>]
    ELSE [kind |-> "value", exc |-> "", value |-> <<PesqScore(fs2), StoiScore(fs2)>>]

\* An average that answers 0 for no scores.
MeanOrZero(scores) ==
    IF Len(scores) = 0
    THEN [kind |-> "value", exc |-> "", value |-> <<0, 1>>]
    ELSE [kind |-> "value", exc |-> "", value |-> <<SumSeq(scores), Len(scores)>>]

\* sum(scores) / len(scores) (lines 70-71), as the fraction <<sum, len>>.
Mean(scores) ==
    IF Len(scores) = 0
    THEN [kind |-> "raise", exc |-> "ZeroDivisionError", value |-> <<>>]
    ELSE [kind |-> "value", exc |-> "", value |-> <<SumSeq(scores), Len(scores)>>]

\* Lines 30-36.
EvCheckDirs ==
    /\ ev.pc = "start"
    /\ IF ev.clean_dir = ev.noisy_dir \/ ~ev.clean_exists
       THEN ev' = [ev EXCEPT !.pc = "raised", !.error = "AssertionError"]
       ELSE ev' = [ev EXCEPT !.pc = "find",
                             !.printed = <<"INFO Task", "INFO clean_dir", "INFO noisy_dir">>]
    /\ UNCHANGED <<datasetVars, collateVars>>

\* Lines 39-58.
EvFindPairs ==
    /\ ev.pc = "find"
    /\ LET names == SortedSeq(ev.clean_files)
           clean_wav_files == [k \in DOMAIN names |-> <<ev.clean_dir, names[k]>>]
           noisy_wav_files == [k \in DOMAIN names |->
                                 ReplaceDir(clean_wav_files[k], ev.clean_dir, ev.noisy_dir)]
           keep == {k \in DOMAIN names :
                       PathExists(clean_wav_files[k]) /\ PathExists(noisy_wav_files[k])}
           kept == SortedSeq(keep)
           clean_noisy_wav_files ==
               [k \in DOMAIN kept |-> <<clean_wav_files[kept[k]], noisy_wav_files[kept[k]]>>]
       IN  ev' = [ev EXCEPT !.pc = "pool",
                            !.clean_noisy_wav_files = clean_noisy_wav_files,
                            !.n_files = Len(clean_noisy_wav_files),
                            !.pending = DOMAIN clean_noisy_wav_files,
                            !.printed = Append(@, "INFO Start multiprocessing")]
    /\ UNCHANGED <<datasetVars, collateVars>>

\* Lines 59-68: imap_unordered yields the results in any order; a result that is
\* an exception is raised in main.
EvNextResult ==
    /\ ev.pc = "pool"
    /\ \E k \in ev.pending :
        LET r == cal_pesq(ev.clean_noisy_wav_files[k])
        IN  IF r.kind = "raise"
            THEN ev' = [ev EXCEPT !.pc = "raised", !.error = r.exc]
            ELSE ev' = [ev EXCEPT !.pending = @ \ {k},
                                  !.pesq_scores = Append(@, r.value[1]),
                                  !.stoi_scores = Append(@, r.value[2])]
    /\ UNCHANGED <<datasetVars, collateVars>>

\* Lines 70-73.
EvAverage ==
    /\ ev.pc = "pool"
    /\ ev.pending = {}
    /\ LET pesq_avg == Mean(ev.pesq_scores)
           stoi_avg == Mean(ev.stoi_scores)
       IN  IF pesq_avg.kind = "raise"
           THEN ev' = [ev EXCEPT !.pc = "raised", !.error = pesq_avg.exc]
           ELSE IF stoi_avg.kind = "raise"
           THEN ev' = [ev EXCEPT !.pc = "raised", !.error = stoi_avg.exc]
           ELSE ev' = [ev EXCEPT !.pc = "done",
                          !.results = <<<<"RESULT average PESQ", ev.n_files, pesq_avg.value>>,
                                        <<"RESULT average PESQ", ev.n_files, stoi_avg.value>>>>]
    /\ UNCHANGED <<datasetVars, collateVars>>

InitEval ==
    /\ NoDataset
    /\ batch = <<>>
    /\ collated = [status |-> "none"]
    /\ \E cd \in Dirs, nd \in Dirs, ce \in BOOLEAN :
       \E cf \in SUBSET (1..MaxFiles), nf \in SUBSET (1..MaxFiles) :
       \E rm \in SUBSET cf :
          /\ ~ce => cf = {}
          /\ ev = [pc |-> "start", clean_dir |-> cd, noisy_dir |-> nd,
                   clean_exists |-> ce, clean_files |-> cf, noisy_files |-> nf,
                   rate_mismatch |-> rm,
                   clean_noisy_wav_files |-> <<>>, n_files |-> 0, pending |-> {},
                   pesq_scores |-> <<>>, stoi_scores |-> <<>>,
                   error |-> "", printed |-> <<>>, results |-> <<>>]

NextEval == EvCheckDirs \/ EvFindPairs \/ EvNextResult \/ EvAverage

SpecEval == InitEval /\ [][NextEval]_vars

\* The clean files that have a file of the same relative name under noisy_dir.
PairedFiles == ev.clean_files \cap ev.noisy_files

\* C9: when no (clean, noisy) pair exists, main ends by raising, and no average
\* result line is ever printed.
C9_ZeroPairsRaises ==
    PairedFiles = {} =>
        /\ ev.pc # "done"
        /\ ev.results = <<>>
        /\ ev.pc = "raised" => ev.error \in {"AssertionError", "ZeroDivisionError"}
        /\ (ev.pc = "pool" /\ ev.pending = {}) => Mean(ev.pesq_scores).kind = "raise"

\* The clean directory holds files, none has a counterpart, and main raised on
\* the division.
C9_Witness ==
    /\ ev.pc = "raised"
    /\ ev.error = "ZeroDivisionError"
    /\ ev.clean_files # {}
    /\ PairedFiles = {}
    /\ ev.results = <<>>

====
